---- MODULE Spec2Model ----
(***************************************************************************)
(* Optimistic write / refresh protocol of the Mikrotik Router switch       *)
(* entities (custom_components/mikrotik_router/switch.py).                 *)
(*                                                                         *)
(* Every entity is one toggle instance.  A call of async_turn_on or        *)
(* async_turn_off is a coroutine; it runs without interruption up to its   *)
(* next await (the remote write, the PoE write, the refresh request), is   *)
(* suspended there, and is resumed when the awaited call returns or        *)
(* raises.  Between two such steps other coroutines of the same event loop *)
(* run: further requests on the same entity, requests on other entities,   *)
(* and the coordinator publishing a new snapshot.                          *)
(*                                                                         *)
(* Encodings.  Python's bool|None of _optimistic_is_on is a sequence:      *)
(* <<>> is None and <<b>> is the boolean b.  Python's None as a reference  *)
(* value or as a return value is the string "None".  What a step emits     *)
(* (remote calls issued, states written to Home Assistant) is the sequence *)
(* out[e], in the order the code emits it; every step overwrites it.       *)
(***************************************************************************)
EXTENDS Integers, Sequences, FiniteSets, TLC

VARIABLES
    variant,      \* entity -> class of the entity (fixed by async_setup_entry)
    access,       \* coordinator.data["access"]
    data,         \* entity -> self._data, the entity's record of the snapshot
    coll,         \* entity -> coordinator.data[<collection>] the entity scans
    optimistic,   \* entity -> self._optimistic_is_on
    wip,          \* entity -> self._write_in_progress
    task,         \* entity -> slot -> one call of async_turn_on/async_turn_off
    out           \* entity -> what the entity's code emitted in the last step

vars == <<variant, access, data, coll, optimistic, wip, task, out>>

\* Concurrent calls of async_turn_on/off that one entity can have at a time.
MaxTasks == 2

\* Records in a scanned collection (nat, mangle, filter, queue).
MaxRecords == 2

Variants == {"simple", "port", "nat", "mangle", "filter", "queue", "kidcontrol"}

Matchers == {"nat", "mangle", "filter", "queue"}

Slots == 1..MaxTasks

None == "None"

Unset == <<>>

CAPSMAN == "managed by CAPsMAN"

(***************************************************************************)
(* The entity descriptions (switch_types.py): where the entity writes,     *)
(* which field names the target, which field is flipped and which field    *)
(* of the record is displayed.                                             *)
(***************************************************************************)
Descriptor(v) ==
    [data_switch_path |->
        CASE v = "simple"     -> "/ppp/secret"
          [] v = "port"       -> "/interface"
          [] v = "nat"        -> "/ip/firewall/nat"
          [] v = "mangle"     -> "/ip/firewall/mangle"
          [] v = "filter"     -> "/ip/firewall/filter"
          [] v = "queue"      -> "/queue/simple"
          [] v = "kidcontrol" -> "/ip/kid-control",
     data_reference |->
        CASE v = "port"       -> "default-name"
          [] v \in Matchers   -> ".id"
          [] OTHER            -> "name",
     data_switch_parameter |-> "disabled",
     data_attribute |-> "enabled"]

(***************************************************************************)
(* The snapshot.  Only the fields the switch code reads are kept.  A       *)
(* collection is the sequence of its records in iteration order.           *)
(***************************************************************************)
AccessSets == {{"read", "write"}, {"read"}}

NatUniqIds ==
    {"srcnat,masquerade,tcp,eth1:80-eth0:192.168.1.1:8080",
     "srcnat,masquerade,udp,eth1:80-eth0:192.168.1.1:8080"}

MangleUniqIds ==
    {"prerouting,mark-routing,tcp,10.0.0.1:1000-10.0.0.2:443,lan-wan",
     "prerouting,mark-routing,udp,10.0.0.1:1000-10.0.0.2:443,lan-wan"}

FilterUniqIds ==
    {"forward,drop,tcp,any,eth1,lan:10.0.0.1,trusted:1000-eth0,wan:10.0.0.2,blocked:443",
     "forward,drop,udp,any,eth1,lan:10.0.0.1,trusted:1000-eth0,wan:10.0.0.2,blocked:443"}

QueueNames == {"q1", "q2"}

DataRecords(v) ==
    CASE v \in {"simple", "kidcontrol"} ->
            {("enabled" :> b @@ "name" :> n) : b \in BOOLEAN, n \in {"n1", "n2"}}
      [] v = "port" ->
            \* The port's record: plain (with or without PoE), with a MAC
            \* address that holds a dash, or managed by CAPsMAN.
            \* port-mac-address is the sequence of its characters.
            LET ether == {("enabled" :> b @@ "default-name" :> "ether1" @@ "about" :> ""
                           @@ "port-mac-address" :> <<"A", "A", ":", "0", "1">>) :
                             b \in BOOLEAN}
                bond  == {("enabled" :> b @@ "default-name" :> "ether1" @@ "about" :> ""
                           @@ "port-mac-address" :>
                                <<"A", "A", ":", "0", "1", "-", "0", "2">>) :
                             b \in BOOLEAN}
                wlan  == {("enabled" :> b @@ "default-name" :> "ether1"
                           @@ "about" :> CAPSMAN
                           @@ "port-mac-address" :> <<"A", "A", ":", "0", "3">>) :
                             b \in BOOLEAN}
            IN  ether \cup bond \cup wlan
                \cup {r @@ ("poe-out" :> p) : r \in ether, p \in {"off", "auto-on"}}
      [] v = "nat" ->
            {("enabled" :> b @@ "chain" :> "srcnat" @@ "action" :> "masquerade"
              @@ "protocol" :> p @@ "in-interface" :> "eth1" @@ "dst-port" :> "80"
              @@ "out-interface" :> "eth0" @@ "to-addresses" :> "192.168.1.1"
              @@ "to-ports" :> "8080") : b \in BOOLEAN, p \in {"tcp"}}
      [] v = "mangle" ->
            {("enabled" :> b @@ "chain" :> "prerouting" @@ "action" :> "mark-routing"
              @@ "protocol" :> p @@ "src-address" :> "10.0.0.1" @@ "src-port" :> "1000"
              @@ "dst-address" :> "10.0.0.2" @@ "dst-port" :> "443"
              @@ "src-address-list" :> "lan" @@ "dst-address-list" :> "wan") :
                b \in BOOLEAN, p \in {"tcp"}}
      [] v = "filter" ->
            {("enabled" :> b @@ "chain" :> "forward" @@ "action" :> "drop"
              @@ "protocol" :> p @@ "layer7-protocol" :> "any"
              @@ "in-interface" :> "eth1" @@ "in-interface-list" :> "lan"
              @@ "src-address" :> "10.0.0.1" @@ "src-address-list" :> "trusted"
              @@ "src-port" :> "1000"
              @@ "out-interface" :> "eth0" @@ "out-interface-list" :> "wan"
              @@ "dst-address" :> "10.0.0.2" @@ "dst-address-list" :> "blocked"
              @@ "dst-port" :> "443") : b \in BOOLEAN, p \in {"tcp"}}
      [] v = "queue" ->
            {("enabled" :> b @@ "name" :> n) : b \in BOOLEAN, n \in {"q1"}}

\* The field of a collection's records the scan compares, and its values.
MatchField(v) == IF v = "queue" THEN "name" ELSE "uniq-id"

MatchValues(v) ==
    CASE v = "nat"    -> NatUniqIds
      [] v = "mangle" -> MangleUniqIds
      [] v = "filter" -> FilterUniqIds
      [] v = "queue"  -> QueueNames

\* The k-th record of a collection has .id "*k".
IdOf(k) == "*" \o ToString(k)

\* A scanned collection holds MaxRecords records; each carries one of the
\* values of the compared field, so that none, one or several of them match.
Collections(v) ==
    IF v \notin Matchers THEN {<<>>}
    ELSE {[k \in 1..MaxRecords |-> (MatchField(v) :> u[k] @@ ".id" :> IdOf(k))] :
             u \in [1..MaxRecords -> MatchValues(v)]}

(***************************************************************************)
(* Pure parts of the switch code.                                          *)
(***************************************************************************)
\* str() of a Python bool, as the remote call receives it.
PyBool(b) == IF b THEN "True" ELSE "False"

\* MikrotikSwitch.is_on for optimistic state o and record d of an entity of
\* variant v.
IsOn(o, d, v) ==
    IF o # Unset THEN o[1] ELSE d[Descriptor(v).data_attribute]

is_on(e) == IsOn(optimistic[e], data[e], variant[e])

\* Faulty variant of HasWrite: the permission check is missing.
HasWriteAlways(acc) == TRUE

\* The permission check: "write" in self.coordinator.data["access"].
HasWrite(acc) == "write" \in acc

\* self._data["about"] == "managed by CAPsMAN"
ManagedElsewhere(d) == d["about"] = CAPSMAN

\* "-" in self._data["port-mac-address"]
HasDash(m) == \E i \in 1..Len(m) : m[i] = "-"

\* The field named in the port's write: "name" replaces the reference field
\* when the port's MAC address contains a dash.
PortParam(d) ==
    IF HasDash(d["port-mac-address"]) THEN "name"
    ELSE Descriptor("port").data_reference

\* Faulty variant of ModValue: the sense of "disabled" is inverted.
ModValueInverted(on) == PyBool(on)

\* The value written to the switch parameter ("disabled"): False turns on.
ModValue(on) == PyBool(~on)

\* poe-out value that makes the port code issue its second write, and the
\* value that write sets.
PoeSentinel(on) == IF on THEN "off" ELSE "auto-on"

\* Faulty variant of PoeTarget: the second write sets the value it found.
PoeTargetSame(on) == IF on THEN "off" ELSE "auto-on"

PoeTarget(on) == IF on THEN "auto-on" ELSE "off"

NeedsPoeWrite(d, on) ==
    "poe-out" \in DOMAIN d /\ d["poe-out"] = PoeSentinel(on)

\* The key each matcher class builds from its own record.
NatKey(d) ==
    d["chain"] \o "," \o d["action"] \o "," \o d["protocol"] \o ","
    \o d["in-interface"] \o ":" \o d["dst-port"] \o "-"
    \o d["out-interface"] \o ":" \o d["to-addresses"] \o ":" \o d["to-ports"]

MangleKey(d) ==
    d["chain"] \o "," \o d["action"] \o "," \o d["protocol"] \o ","
    \o d["src-address"] \o ":" \o d["src-port"] \o "-"
    \o d["dst-address"] \o ":" \o d["dst-port"] \o ","
    \o d["src-address-list"] \o "-" \o d["dst-address-list"]

FilterKey(d) ==
    d["chain"] \o "," \o d["action"] \o "," \o d["protocol"] \o ","
    \o d["layer7-protocol"] \o ","
    \o d["in-interface"] \o "," \o d["in-interface-list"] \o ":"
    \o d["src-address"] \o "," \o d["src-address-list"] \o ":" \o d["src-port"] \o "-"
    \o d["out-interface"] \o "," \o d["out-interface-list"] \o ":"
    \o d["dst-address"] \o "," \o d["dst-address-list"] \o ":" \o d["dst-port"]

QueueKey(d) == d["name"]

IdentityKey(v, d) ==
    CASE v = "nat"    -> NatKey(d)
      [] v = "mangle" -> MangleKey(d)
      [] v = "filter" -> FilterKey(d)
      [] v = "queue"  -> QueueKey(d)

\* Faulty variant of Scan: the scan stops at the first match.
RECURSIVE ScanFirst(_, _, _, _, _)
ScanFirst(c, field, key, i, value) ==
    IF i > Len(c) THEN value
    ELSE IF c[i][field] = key THEN c[i][".id"]
    ELSE ScanFirst(c, field, key, i + 1, value)

\* The scan "for uid in collection: if record[field] == key: value = record['.id']"
\* from record i on, with value the result so far.  There is no break.
RECURSIVE Scan(_, _, _, _, _)
Scan(c, field, key, i, value) ==
    IF i > Len(c) THEN value
    ELSE Scan(c, field, key, i + 1,
              IF c[i][field] = key THEN c[i][".id"] ELSE value)

\* The reference value a matcher class passes to the write.
Locate(v, c, d) == Scan(c, MatchField(v), IdentityKey(v, d), 1, None)

\* The remote calls, as the coordinator receives them.
SetValueCall(path, param, value, mod_param, mod_value) ==
    <<"set_value", path, param, value, mod_param, mod_value>>

ExecuteCall(path, command, param, value) ==
    <<"execute", path, command, param, value>>

RefreshCall == <<"refresh">>

\* self.async_write_ha_state() while the entity displays shown.
StateWritten(shown) == <<"state", PyBool(shown)>>

\* Faulty variant of Command: the two commands are exchanged.
CommandSwapped(on) == IF on THEN "pause" ELSE "resume"

\* command of MikrotikKidcontrolPauseSwitch.async_turn_on / async_turn_off
Command(on) == IF on THEN "resume" ELSE "pause"

(***************************************************************************)
(* One call of async_turn_on (on = TRUE) or async_turn_off (on = FALSE).   *)
(*   pc     where the coroutine is: "idle" (no call), "write" (awaiting    *)
(*          async_set_value or async_execute), "poe" (awaiting the port's  *)
(*          second async_set_value), "refresh" (awaiting                   *)
(*          async_request_refresh), "done" (returned or raised)            *)
(*   prev   <<b>>, b the state displayed when the request was accepted:    *)
(*          previous_state of _async_write_and_refresh (the port and       *)
(*          kidcontrol classes do not keep it; there it is history only)   *)
(*   was    history: _optimistic_is_on when the request was accepted       *)
(*   param, value   the port's reference field and value, which its second *)
(*          write uses again                                               *)
(*   on     the requested state, until the write is over                   *)
(*   poe    history: whether poe-out held the sentinel of the requested    *)
(*          direction when the request was accepted                        *)
(*   stale  history: the write or command has succeeded, the record in use  *)
(*          then showed another state than the one written, and no         *)
(*          snapshot has been published since                              *)
(*   sets, execs, refreshes   how many async_set_value, async_execute and  *)
(*          async_request_refresh calls the request has made so far        *)
(*   ret    the value returned, "raised" when the call raised              *)
(***************************************************************************)
IdleTask ==
    [pc |-> "idle", on |-> FALSE, prev |-> <<>>, was |-> <<>>, param |-> None,
     value |-> None, poe |-> FALSE, stale |-> FALSE, sets |-> 0, execs |-> 0,
     refreshes |-> 0, ret |-> None]

Entities == DOMAIN variant

\* A slot holds no running call when it was never used or its call is over.
Free(e, t) == task[e][t].pc \in {"idle", "done"}

\* The slot a new call takes: the lowest one that holds no running call.
FreeSlot(e) == {t \in Slots : Free(e, t) /\ \A u \in Slots : Free(e, u) => t <= u}

\* The slots of entity e with the call in slot t over: the slot keeps what the
\* call did (its locals are gone), and the record of the call that ended
\* before it is dropped.
Over(e, t, rec) ==
    [u \in Slots |->
        IF u = t THEN [rec EXCEPT !.pc = "done", !.on = FALSE, !.prev = <<>>,
                                  !.was = <<>>, !.param = None, !.value = None,
                                  !.poe = FALSE, !.stale = FALSE]
        ELSE IF task[e][u].pc = "done" THEN IdleTask
        ELSE task[e][u]]

\* Entity e emits the events ev in this step, and no other entity emits any.
Emits(e, ev) == out' = [x \in Entities |-> IF x = e THEN ev ELSE <<>>]

\* The request returns before it changed anything.
Dropped(e, t, ret) ==
    /\ task' = [task EXCEPT ![e] = Over(e, t, [IdleTask EXCEPT !.ret = ret])]
    /\ Emits(e, <<>>)
    /\ UNCHANGED <<optimistic, wip>>

\* self._write_in_progress = True; self._set_optimistic_state(on); the first
\* remote call is issued and the coroutine is suspended in it.
Accepted(e, t, on, param, value, call) ==
    /\ wip' = [wip EXCEPT ![e] = TRUE]
    /\ optimistic' = [optimistic EXCEPT ![e] = <<on>>]
    /\ task' = [task EXCEPT ![e][t] =
                    [IdleTask EXCEPT !.pc = "write", !.on = on,
                                     !.prev = <<is_on(e)>>, !.was = optimistic[e],
                                     !.param = param, !.value = value,
                                     !.poe = NeedsPoeWrite(data[e], on),
                                     !.sets = IF call[1] = "set_value" THEN 1 ELSE 0,
                                     !.execs = IF call[1] = "execute" THEN 1 ELSE 0]]
    /\ Emits(e, <<StateWritten(on), call>>)

\* Faulty variant of Busy: the guard is missing.
BusyNever(e) == FALSE

\* Faulty variant of Busy: one flag for all entities.
BusyAny(e) == \E x \in Entities : wip[x]

\* The guard of every request: a write in progress drops it.
Busy(e) == wip[e]

\* MikrotikSwitch._async_write_and_refresh up to its first await.
WriteAndRefresh(e, t, on, param, value) ==
    IF Busy(e)
    THEN Dropped(e, t, None)
    ELSE Accepted(e, t, on, None, None,
                  SetValueCall(Descriptor(variant[e]).data_switch_path, param, value,
                               Descriptor(variant[e]).data_switch_parameter,
                               ModValue(on)))

\* MikrotikSwitch.async_turn_on / async_turn_off
TurnSimple(e, on) ==
    /\ variant[e] = "simple"
    /\ \E t \in FreeSlot(e) :
          IF ~HasWrite(access)
          THEN Dropped(e, t, None)
          ELSE WriteAndRefresh(e, t, on, Descriptor("simple").data_reference,
                               data[e][Descriptor("simple").data_reference])
    /\ UNCHANGED <<variant, access, data, coll>>

\* Faulty variant of TurnMatcher: the request stores the requested state in
\* the entity's record.
TurnMatcherMarks(e, on) ==
    /\ variant[e] \in Matchers
    /\ \E t \in FreeSlot(e) :
          IF ~HasWrite(access)
          THEN Dropped(e, t, None)
          ELSE WriteAndRefresh(e, t, on, ".id", Locate(variant[e], coll[e], data[e]))
    /\ data' = [data EXCEPT ![e] = [@ EXCEPT !["enabled"] = on]]
    /\ UNCHANGED <<variant, access, coll>>

\* MikrotikNATSwitch, MikrotikMangleSwitch, MikrotikFilterSwitch and
\* MikrotikQueueSwitch: async_turn_on / async_turn_off
TurnMatcher(e, on) ==
    /\ variant[e] \in Matchers
    /\ \E t \in FreeSlot(e) :
          IF ~HasWrite(access)
          THEN Dropped(e, t, None)
          ELSE WriteAndRefresh(e, t, on, ".id", Locate(variant[e], coll[e], data[e]))
    /\ UNCHANGED <<variant, access, data, coll>>

\* Faulty variant of TurnPort: the guard is tested before the CAPsMAN check.
TurnPortGuardFirst(e, on) ==
    /\ variant[e] = "port"
    /\ \E t \in FreeSlot(e) :
          IF ~HasWrite(access)
          THEN Dropped(e, t, None)
          ELSE IF Busy(e)
          THEN Dropped(e, t, None)
          ELSE IF ManagedElsewhere(data[e])
          THEN Dropped(e, t, CAPSMAN)
          ELSE Accepted(e, t, on, PortParam(data[e]),
                        data[e][Descriptor("port").data_reference],
                        SetValueCall(Descriptor("port").data_switch_path,
                                     PortParam(data[e]),
                                     data[e][Descriptor("port").data_reference],
                                     Descriptor("port").data_switch_parameter,
                                     ModValue(on)))
    /\ UNCHANGED <<variant, access, data, coll>>

\* MikrotikPortSwitch.async_turn_on / async_turn_off up to the first await.
TurnPort(e, on) ==
    /\ variant[e] = "port"
    /\ \E t \in FreeSlot(e) :
          IF ~HasWrite(access)
          THEN Dropped(e, t, None)
          ELSE IF ManagedElsewhere(data[e])
          THEN Dropped(e, t, CAPSMAN)
          ELSE IF Busy(e)
          THEN Dropped(e, t, None)
          ELSE Accepted(e, t, on, PortParam(data[e]),
                        data[e][Descriptor("port").data_reference],
                        SetValueCall(Descriptor("port").data_switch_path,
                                     PortParam(data[e]),
                                     data[e][Descriptor("port").data_reference],
                                     Descriptor("port").data_switch_parameter,
                                     ModValue(on)))
    /\ UNCHANGED <<variant, access, data, coll>>

\* MikrotikKidcontrolPauseSwitch.async_turn_on / async_turn_off up to the await.
TurnKidcontrol(e, on) ==
    /\ variant[e] = "kidcontrol"
    /\ \E t \in FreeSlot(e) :
          IF ~HasWrite(access)
          THEN Dropped(e, t, None)
          ELSE IF Busy(e)
          THEN Dropped(e, t, None)
          ELSE Accepted(e, t, on, None, None,
                        ExecuteCall(Descriptor("kidcontrol").data_switch_path,
                                    Command(on),
                                    Descriptor("kidcontrol").data_reference,
                                    data[e][Descriptor("kidcontrol").data_reference]))
    /\ UNCHANGED <<variant, access, data, coll>>

(***************************************************************************)
(* Resumptions: the awaited remote call returns or raises.                 *)
(***************************************************************************)
\* What async_set_value can do: return something other than False, return
\* False, raise.
Results == {"ok", "false", "raise"}

\* Faulty variant of Finally: the flag is left as it is.
FinallyKeeps(e) == wip

\* finally: self._write_in_progress = False
Finally(e) == [wip EXCEPT ![e] = FALSE]

\* self._set_optimistic_state(previous_state) after a rejected write
RolledBack(prev) == prev

\* The coroutine ends, by return or by an exception that leaves it, after
\* writing the events ev.
Ends(e, t, ret, ev) ==
    /\ task' = [task EXCEPT ![e] = Over(e, t, [task[e][t] EXCEPT !.ret = ret])]
    /\ Emits(e, ev)

\* History: the remote call of the request in slot t has succeeded and the
\* record in use shows another state than the one it wrote.
Stale(e, t, result) ==
    /\ result = "ok"
    /\ data[e][Descriptor(variant[e]).data_attribute] # task[e][t].on

\* await self.coordinator.async_request_refresh() is reached; nothing after it
\* reads the locals of the write.
RequestsRefresh(e, t, stale) ==
    /\ task' = [task EXCEPT ![e][t] =
                   [@ EXCEPT !.pc = "refresh", !.refreshes = @ + 1, !.on = FALSE,
                             !.prev = <<>>, !.was = <<>>, !.param = None,
                             !.value = None, !.poe = FALSE, !.stale = stale]]
    /\ Emits(e, <<RefreshCall>>)

\* MikrotikSwitch._async_write_and_refresh from the return of async_set_value
\* to the next await or to its end.
WriteReturnsBase(e, t, result) ==
    /\ variant[e] \in {"simple"} \cup Matchers
    /\ task[e][t].pc = "write"
    /\ wip' = Finally(e)
    /\ CASE result = "false" ->
                /\ optimistic' = [optimistic EXCEPT ![e] = RolledBack(task[e][t].prev)]
                /\ Ends(e, t, None, <<StateWritten(RolledBack(task[e][t].prev)[1])>>)
         [] result = "raise" ->
                /\ Ends(e, t, "raised", <<>>)
                /\ UNCHANGED optimistic
         [] result = "ok" ->
                /\ RequestsRefresh(e, t, Stale(e, t, result))
                /\ UNCHANGED optimistic
    /\ UNCHANGED <<variant, access, data, coll>>

\* MikrotikPortSwitch.async_turn_on/off from the return of the first
\* async_set_value, whose result is not looked at.
WriteReturnsPort(e, t, result) ==
    /\ variant[e] = "port"
    /\ task[e][t].pc = "write"
    /\ IF result = "raise"
       THEN /\ wip' = Finally(e)
            /\ Ends(e, t, "raised", <<>>)
       ELSE IF NeedsPoeWrite(data[e], task[e][t].on)
       THEN /\ task' = [task EXCEPT ![e][t].pc = "poe", ![e][t].sets = @ + 1,
                                     ![e][t].stale = Stale(e, t, result)]
            /\ Emits(e, <<SetValueCall("/interface/ethernet", task[e][t].param,
                                       task[e][t].value, "poe-out",
                                       PoeTarget(task[e][t].on))>>)
            /\ UNCHANGED wip
       ELSE /\ wip' = Finally(e)
            /\ RequestsRefresh(e, t, Stale(e, t, result))
    /\ UNCHANGED <<variant, access, data, coll, optimistic>>

\* MikrotikPortSwitch.async_turn_on/off from the return of the second
\* async_set_value.
PoeReturns(e, t, result) ==
    /\ variant[e] = "port"
    /\ task[e][t].pc = "poe"
    /\ wip' = Finally(e)
    /\ IF result = "raise" THEN Ends(e, t, "raised", <<>>)
       ELSE RequestsRefresh(e, t, task[e][t].stale)
    /\ UNCHANGED <<variant, access, data, coll, optimistic>>

\* MikrotikKidcontrolPauseSwitch.async_turn_on/off from the return of
\* async_execute.
ExecuteReturns(e, t, result) ==
    /\ variant[e] = "kidcontrol"
    /\ task[e][t].pc = "write"
    /\ wip' = Finally(e)
    /\ IF result = "raise" THEN Ends(e, t, "raised", <<>>)
       ELSE RequestsRefresh(e, t, Stale(e, t, result))
    /\ UNCHANGED <<variant, access, data, coll, optimistic>>

\* Faulty variant of RefreshReturns: the optimistic state is not cleared.
RefreshReturnsKeeps(e, t) ==
    /\ task[e][t].pc = "refresh"
    /\ Ends(e, t, None, <<StateWritten(is_on(e))>>)
    /\ UNCHANGED <<variant, access, data, coll, wip, optimistic>>

\* Every class, from the return of async_request_refresh to the end:
\* self._optimistic_is_on = None; self.async_write_ha_state()
RefreshReturns(e, t) ==
    /\ task[e][t].pc = "refresh"
    /\ optimistic' = [optimistic EXCEPT ![e] = Unset]
    /\ Ends(e, t, None, <<StateWritten(IsOn(Unset, data[e], variant[e]))>>)
    /\ UNCHANGED <<variant, access, data, coll, wip>>

\* The records and collections a snapshot can hold for the entities.
Snapshots ==
    LET One(e) == {[data |-> d, coll |-> c] :
                      d \in DataRecords(variant[e]), c \in Collections(variant[e])}
        RECURSIVE All(_)
        All(E) == IF E = {} THEN {[data |-> <<>>, coll |-> <<>>]}
                  ELSE LET e == CHOOSE x \in E : TRUE
                       IN  {[data |-> (e :> o.data) @@ r.data,
                             coll |-> (e :> o.coll) @@ r.coll] :
                               o \in One(e), r \in All(E \ {e})}
    IN  All(Entities)

\* The coordinator publishes a new snapshot: its data is replaced as a whole
\* and every entity takes its record from it.
SnapshotArrives ==
    /\ access' \in AccessSets
    /\ \E s \in Snapshots : data' = s.data /\ coll' = s.coll
    /\ out' = [e \in Entities |-> <<>>]
    /\ task' = [e \in Entities |-> [t \in Slots |->
                   [task[e][t] EXCEPT !.stale = FALSE]]]
    /\ UNCHANGED <<variant, optimistic, wip>>

Init ==
    /\ variant \in [{"e1"} -> Variants]
    /\ access \in AccessSets
    /\ \E s \in Snapshots : data = s.data /\ coll = s.coll
    /\ optimistic = [e \in Entities |-> Unset]
    /\ wip = [e \in Entities |-> FALSE]
    /\ task = [e \in Entities |-> [t \in Slots |-> IdleTask]]
    /\ out = [e \in Entities |-> <<>>]

Next ==
    \/ \E e \in Entities, on \in BOOLEAN : TurnSimple(e, on)
    \/ \E e \in Entities, on \in BOOLEAN : TurnMatcher(e, on)
    \/ \E e \in Entities, on \in BOOLEAN : TurnPort(e, on)
    \/ \E e \in Entities, on \in BOOLEAN : TurnKidcontrol(e, on)
    \/ \E e \in Entities, t \in Slots, r \in Results : WriteReturnsBase(e, t, r)
    \/ \E e \in Entities, t \in Slots, r \in Results : WriteReturnsPort(e, t, r)
    \/ \E e \in Entities, t \in Slots, r \in Results : PoeReturns(e, t, r)
    \/ \E e \in Entities, t \in Slots, r \in Results : ExecuteReturns(e, t, r)
    \/ \E e \in Entities, t \in Slots : RefreshReturns(e, t)
    \/ SnapshotArrives

Spec == Init /\ [][Next]_vars

\* Every awaited remote write or command eventually returns or raises.
RemoteCallsReturn ==
    /\ WF_vars(\E e \in Entities, t \in Slots, r \in Results : WriteReturnsBase(e, t, r))
    /\ WF_vars(\E e \in Entities, t \in Slots, r \in Results : WriteReturnsPort(e, t, r))
    /\ WF_vars(\E e \in Entities, t \in Slots, r \in Results : PoeReturns(e, t, r))
    /\ WF_vars(\E e \in Entities, t \in Slots, r \in Results : ExecuteReturns(e, t, r))

LiveSpec == Spec /\ RemoteCallsReturn

(***************************************************************************)
(* Two entities of one coordinator, one of the base class and one          *)
(* kidcontrol switch, each with its own _optimistic_is_on and              *)
(* _write_in_progress (MikrotikSwitch.__init__), under one snapshot, in     *)
(* which both are off.                                                     *)
(***************************************************************************)
PairInit ==
    /\ variant = ("e1" :> "simple" @@ "e2" :> "kidcontrol")
    /\ access \in AccessSets
    /\ \E s \in Snapshots :
          /\ \A e \in DOMAIN s.data : s.data[e]["name"] = "n1" /\ ~s.data[e]["enabled"]
          /\ data = s.data /\ coll = s.coll
    /\ optimistic = [e \in Entities |-> Unset]
    /\ wip = [e \in Entities |-> FALSE]
    /\ task = [e \in Entities |-> [t \in Slots |-> IdleTask]]
    /\ out = [e \in Entities |-> <<>>]

PairNext ==
    \/ \E e \in Entities, on \in BOOLEAN : TurnSimple(e, on)
    \/ \E e \in Entities, on \in BOOLEAN : TurnKidcontrol(e, on)
    \/ \E e \in Entities, t \in Slots, r \in Results : WriteReturnsBase(e, t, r)
    \/ \E e \in Entities, t \in Slots, r \in Results : ExecuteReturns(e, t, r)
    \/ \E e \in Entities, t \in Slots : RefreshReturns(e, t)

PairSpec == PairInit /\ [][PairNext]_vars

(***************************************************************************)
(* Vocabulary of the properties.                                           *)
(***************************************************************************)
\* The call in slot t is between its acceptance and its end.
Running(e, t) == task[e][t].pc \in {"write", "poe", "refresh"}

\* A remote write or command of the call in slot t is in flight.
InFlight(e, t) == task[e][t].pc \in {"write", "poe"}

\* This step is a turn-on or turn-off request on e that takes slot t.
TakesSlot(e, t) ==
    /\ Free(e, t)
    /\ task'[e][t].pc \in {"write", "done"}
    /\ task'[e][t] # task[e][t]

\* The remote calls among the events ev.
IsCall(x) == x[1] # "state"

CallsIn(ev) == SelectSeq(ev, IsCall)

\* After this step the request in slot t has returned without a remote call,
\* a notification or a change of the entity's runtime state.
SilentlyDropped(e, t) ==
    /\ task'[e][t].pc = "done"
    /\ out'[e] = <<>>
    /\ task'[e][t].sets = 0 /\ task'[e][t].execs = 0
    /\ task'[e][t].refreshes = 0
    /\ optimistic'[e] = optimistic[e]
    /\ wip'[e] = wip[e]

\* The record of a request that was dropped with return value ret.
DroppedRecord(r, ret) ==
    /\ r.pc = "done" /\ r.ret = ret
    /\ r.sets = 0 /\ r.execs = 0 /\ r.refreshes = 0

\* The records of the collection that match the key of the entity's record.
MatchingRecords(e) ==
    {i \in 1..Len(coll[e]) :
        coll[e][i][MatchField(variant[e])] = IdentityKey(variant[e], data[e])}

\* The single write a matcher request issues, with reference value ref.
MatcherWrite(e, on, ref) ==
    <<"set_value", Descriptor(variant[e]).data_switch_path, ".id", ref,
      Descriptor(variant[e]).data_switch_parameter, IF on THEN "False" ELSE "True">>

\* The classes that go through _async_write_and_refresh.
SharedRoutine == {"simple"} \cup Matchers

(***************************************************************************)
(* C1 -- Rollback on rejection: when the write of an accepted request of   *)
(* the shared write-and-refresh routine returns False, optimistic state    *)
(* and displayed value are what they were immediately before the request   *)
(* (an unset optimistic state is unset again).                             *)
(***************************************************************************)
C1_RollbackRestoresPreState ==
    [][\A e \in Entities, t \in Slots :
          (variant[e] \in SharedRoutine /\ WriteReturnsBase(e, t, "false"))
          => /\ optimistic'[e] = task[e][t].was
             /\ IsOn(optimistic'[e], data'[e], variant[e]) = task[e][t].prev[1]]_vars

(***************************************************************************)
(* C2 -- No re-entrant write: a turn-on or turn-off request issued while   *)
(* _write_in_progress is true returns without a remote call and changes    *)
(* neither the optimistic state nor _write_in_progress; so an entity never *)
(* has more than one remote write or command in flight.                    *)
(***************************************************************************)
C2_NoReentrantWrite ==
    /\ [](\A e \in Entities : Cardinality({t \in Slots : InFlight(e, t)}) <= 1)
    /\ [][\A e \in Entities, t \in Slots :
             (wip[e] /\ TakesSlot(e, t))
             => /\ task'[e][t].pc = "done"
                /\ CallsIn(out'[e]) = <<>>
                /\ task'[e][t].sets = 0 /\ task'[e][t].execs = 0
                /\ task'[e][t].refreshes = 0
                /\ optimistic'[e] = optimistic[e]
                /\ wip'[e] = wip[e]]_vars

\* A request was dropped by the guard alone while a write is in flight.
C2_Witness ==
    \E e \in Entities, t, u \in Slots :
        /\ wip[e] /\ InFlight(e, t)
        /\ "write" \in access
        /\ variant[e] # "port"
        /\ DroppedRecord(task[e][u], None)
        /\ out[e] = <<>>

(***************************************************************************)
(* C3 -- Permission gate: without "write" among the access capabilities a  *)
(* request issues no remote call, notifies nothing and changes neither the *)
(* optimistic state nor _write_in_progress; it returns None even for a     *)
(* port that CAPsMAN manages and whatever _write_in_progress is.           *)
(***************************************************************************)
C3_PermissionGate ==
    [][\A e \in Entities, t \in Slots :
          ("write" \notin access /\ TakesSlot(e, t))
          => (SilentlyDropped(e, t) /\ task'[e][t].ret = None)]_vars

\* A request on a CAPsMAN-managed port was dropped without write permission
\* while a write is in flight.
C3_Witness ==
    \E e \in Entities, t, u \in Slots :
        /\ variant[e] = "port" /\ data[e]["about"] = "managed by CAPsMAN"
        /\ "write" \notin access
        /\ wip[e] /\ InFlight(e, t)
        /\ DroppedRecord(task[e][u], None)
        /\ out[e] = <<>>

(***************************************************************************)
(* C4 -- Per-instance ordering: between the start of a request's write and *)
(* that request's clearing of the optimistic state no other request on the *)
(* same entity sets the optimistic state or issues a write or command.     *)
(***************************************************************************)
C4_NoInterleaving ==
    [][\A e \in Entities, t, u \in Slots :
          (t # u /\ Running(e, t) /\ TakesSlot(e, u))
          => (CallsIn(out'[e]) = <<>> /\ optimistic'[e] = optimistic[e])]_vars

(***************************************************************************)
(* C5 -- Write rejection, every class that writes a field (the port class  *)
(* included): when the primary async_set_value returns False the           *)
(* optimistic state becomes the value displayed before the call and no     *)
(* refresh is requested for that attempt.                                  *)
(***************************************************************************)
C5_RejectionRollsBack ==
    [][\A e \in Entities, t \in Slots :
          (task[e][t].pc = "write"
           /\ (WriteReturnsBase(e, t, "false") \/ WriteReturnsPort(e, t, "false")))
          => /\ optimistic'[e] = task[e][t].prev
             /\ task'[e][t].pc = "done"
             /\ task'[e][t].refreshes = 0
             /\ CallsIn(out'[e]) = <<>>]_vars

(***************************************************************************)
(* C6 -- Optimistic-then-reconcile: from the acceptance of a request until *)
(* its write result is handled the displayed state is the requested state; *)
(* after a successful write, once the optimistic state is cleared, the     *)
(* displayed state is the data attribute of the entity's current record.   *)
(***************************************************************************)
C6_OptimisticThenReconcile ==
    \A e \in Entities :
        /\ \A t \in Slots : InFlight(e, t) => is_on(e) = task[e][t].on
        /\ optimistic[e] = Unset
           => is_on(e) = data[e][Descriptor(variant[e]).data_attribute]

(***************************************************************************)
(* C7 -- Reconciliation after any attempt: once an accepted attempt has    *)
(* ended (success, rollback, raised error) and no request is active on the *)
(* entity, _write_in_progress is false and the optimistic state is unset,  *)
(* so the displayed state is the snapshot's.                               *)
(***************************************************************************)
C7_IdleAfterAttempt ==
    \A e \in Entities :
        ((\E t \in Slots : task[e][t].pc = "done" /\ task[e][t].sets + task[e][t].execs > 0)
         /\ \A t \in Slots : ~Running(e, t))
        => /\ ~wip[e]
           /\ optimistic[e] = Unset
           /\ is_on(e) = data[e][Descriptor(variant[e]).data_attribute]

(***************************************************************************)
(* C8 -- Matched write: a NAT, mangle, filter or queue request made with   *)
(* write capability and no write in progress, when exactly one record of   *)
(* the collection matches the key of the entity's record, issues exactly   *)
(* one set_value, with reference field ".id", that record's ".id", the     *)
(* descriptor's switch parameter, and False to turn on, True to turn off.  *)
(***************************************************************************)
C8_MatchedWrite ==
    /\ [](\A e \in Entities, t \in Slots :
             (variant[e] \in Matchers /\ task[e][t].pc # "idle")
             => /\ task[e][t].sets <= 1
                /\ task[e][t].execs = 0)
    /\ [][\A e \in Entities, t \in Slots :
             (/\ variant[e] \in Matchers
              /\ "write" \in access /\ ~wip[e]
              /\ TakesSlot(e, t)
              /\ Cardinality(MatchingRecords(e)) = 1)
             => /\ task'[e][t].sets = 1
                /\ \E i \in MatchingRecords(e) :
                      CallsIn(out'[e]) =
                          <<MatcherWrite(e, task'[e][t].on, coll[e][i][".id"])>>]_vars

\* Scenario A with a second, non-matching record in front: the NAT rule's
\* write has just been issued and names the matching record.
C8_Witness ==
    \E e \in Entities, t \in Slots :
        /\ variant[e] = "nat"
        /\ coll[e] = <<("uniq-id" :> "srcnat,masquerade,udp,eth1:80-eth0:192.168.1.1:8080"
                        @@ ".id" :> "*1"),
                       ("uniq-id" :> "srcnat,masquerade,tcp,eth1:80-eth0:192.168.1.1:8080"
                        @@ ".id" :> "*2")>>
        /\ task[e][t].pc = "write"
        /\ CallsIn(out[e]) =
              <<<<"set_value", "/ip/firewall/nat", ".id", "*2", "disabled", "False">>>>

(***************************************************************************)
(* C9 -- Ambiguous or missing match: when no record or more than one       *)
(* record of the collection matches, the single write is issued with an    *)
(* undefined reference value, never with the id of a matching record.      *)
(***************************************************************************)
C9_UndefinedReference ==
    [][\A e \in Entities, t \in Slots :
          (/\ variant[e] \in Matchers
           /\ "write" \in access /\ ~wip[e]
           /\ TakesSlot(e, t)
           /\ Cardinality(MatchingRecords(e)) # 1)
          => CallsIn(out'[e]) = <<MatcherWrite(e, task'[e][t].on, None)>>]_vars

\* C9 as the code has it: with no matching record the single write is issued
\* with an undefined reference value; with more than one it is issued with
\* the ".id" of the last matching record in iteration order.
C9_LastMatchWins ==
    [][\A e \in Entities, t \in Slots :
          (/\ variant[e] \in Matchers
           /\ "write" \in access /\ ~wip[e]
           /\ TakesSlot(e, t)
           /\ Cardinality(MatchingRecords(e)) # 1)
          => /\ task'[e][t].sets = 1
             /\ MatchingRecords(e) = {}
                => CallsIn(out'[e]) = <<MatcherWrite(e, task'[e][t].on, None)>>
             /\ MatchingRecords(e) # {}
                => \E i \in MatchingRecords(e) :
                      /\ \A j \in MatchingRecords(e) : j <= i
                      /\ CallsIn(out'[e]) =
                            <<MatcherWrite(e, task'[e][t].on, coll[e][i][".id"])>>]_vars

\* Two queue records carry the entity's name and the write just issued names
\* the second.
C9_Witness ==
    \E e \in Entities, t \in Slots :
        /\ variant[e] = "queue"
        /\ Cardinality(MatchingRecords(e)) = 2
        /\ task[e][t].pc = "write"
        /\ CallsIn(out[e]) =
              <<<<"set_value", "/queue/simple", ".id", "*2", "disabled", "True">>>>

(***************************************************************************)
(* C10 -- Managed elsewhere: with write capability, a request on a port    *)
(* whose record says "managed by CAPsMAN" returns that string, issues no   *)
(* set_value and no refresh request, notifies nothing and leaves the       *)
(* optimistic state and _write_in_progress alone, whatever                 *)
(* _write_in_progress is.                                                  *)
(***************************************************************************)
C10_ManagedElsewhere ==
    [][\A e \in Entities, t \in Slots :
          (/\ variant[e] = "port"
           /\ "write" \in access
           /\ data[e]["about"] = "managed by CAPsMAN"
           /\ TakesSlot(e, t))
          => (SilentlyDropped(e, t) /\ task'[e][t].ret = "managed by CAPsMAN")]_vars

\* The CAPsMAN answer was given while a write of the same port is in flight.
C10_Witness ==
    \E e \in Entities, t, u \in Slots :
        /\ variant[e] = "port"
        /\ wip[e] /\ InFlight(e, t)
        /\ DroppedRecord(task[e][u], "managed by CAPsMAN")
        /\ out[e] = <<>>

(***************************************************************************)
(* C11 -- Port PoE secondary write: an accepted port request issues        *)
(* exactly two set_value calls if and only if poe-out, as it was before    *)
(* the primary write was issued, is the sentinel of the requested          *)
(* direction ("off" to turn on, "auto-on" to turn off).  Stated here for   *)
(* the requests whose primary write returns.                               *)
(***************************************************************************)
C11_PoeAsBeforePrimary ==
    [][\A e \in Entities, t \in Slots :
          (/\ variant[e] = "port"
           /\ task[e][t].pc = "write" /\ task'[e][t].pc # "write"
           /\ task'[e][t].ret # "raised")
          => (task'[e][t].sets = 2 <=> task[e][t].poe)]_vars

\* C11 as the code has it: the second set_value is issued if and only if the
\* primary write returns (does not raise) and poe-out of the port's record, as
\* it is when the primary write returns, is the sentinel of the requested
\* direction; it goes to "/interface/ethernet" with the reference of the
\* primary write and sets poe-out to "auto-on" to turn on, "off" to turn off;
\* a port request issues one set_value before that and none after it.
C11_PoeAfterPrimary ==
    /\ [](\A e \in Entities, t \in Slots :
             variant[e] = "port"
             => /\ task[e][t].pc = "write" => task[e][t].sets = 1
                /\ task[e][t].pc = "poe" => task[e][t].sets = 2
                /\ task[e][t].sets <= 2 /\ task[e][t].execs = 0)
    /\ [][\A e \in Entities, t \in Slots :
             (variant[e] = "port" /\ task[e][t].pc = "write" /\ task'[e][t].pc # "write")
             => LET on == task[e][t].on
                    sentinel == "poe-out" \in DOMAIN data[e]
                                /\ data[e]["poe-out"] = (IF on THEN "off" ELSE "auto-on")
                IN  /\ task'[e][t].pc = "poe" <=> (task'[e][t].ret # "raised" /\ sentinel)
                    /\ task'[e][t].pc = "poe"
                       => /\ task'[e][t].sets = 2
                          /\ out'[e] = <<<<"set_value", "/interface/ethernet",
                                           task[e][t].param, task[e][t].value, "poe-out",
                                           IF on THEN "auto-on" ELSE "off">>>>
                    /\ task'[e][t].pc # "poe"
                       => /\ task'[e][t].sets = 1
                          /\ CallsIn(out'[e]) \in {<<>>, <<RefreshCall>>}]_vars
    /\ [][\A e \in Entities, t \in Slots :
             (variant[e] = "port" /\ task[e][t].pc \in {"poe", "refresh"})
             => task'[e][t].sets \in {0, task[e][t].sets}]_vars

\* Scenario C after a snapshot: poe-out was not "off" when the turn-on request
\* was accepted, it is "off" when the primary write returns, and the second
\* write has just been issued.
C11_Witness ==
    \E e \in Entities, t \in Slots :
        /\ variant[e] = "port"
        /\ task[e][t].pc = "poe" /\ task[e][t].on /\ task[e][t].sets = 2
        /\ ~task[e][t].poe
        /\ out[e] = <<<<"set_value", "/interface/ethernet", "default-name", "ether1",
                       "poe-out", "auto-on">>>>

(***************************************************************************)
(* C12 -- Kidcontrol-pause never writes a field: every accepted request    *)
(* issues exactly one execute call on the descriptor's path, with command  *)
(* "resume" to turn on and "pause" to turn off and with the descriptor's   *)
(* reference field and its value from the current record, and issues no    *)
(* set_value call.                                                         *)
(***************************************************************************)
C12_KidcontrolExecutes ==
    /\ [](\A e \in Entities, t \in Slots :
             variant[e] = "kidcontrol"
             => /\ task[e][t].sets = 0
                /\ Running(e, t) => task[e][t].execs = 1
                /\ task[e][t].execs <= 1)
    /\ [][\A e \in Entities, t \in Slots :
             (variant[e] = "kidcontrol" /\ TakesSlot(e, t) /\ task'[e][t].pc = "write")
             => LET ref == Descriptor("kidcontrol").data_reference
                IN  CallsIn(out'[e]) =
                       <<<<"execute", Descriptor("kidcontrol").data_switch_path,
                           IF task'[e][t].on THEN "resume" ELSE "pause",
                           ref, data[e][ref]>>>>]_vars
    /\ [][\A e \in Entities, t \in Slots :
             (variant[e] = "kidcontrol" /\ Running(e, t))
             => /\ task'[e][t].execs = task[e][t].execs
                /\ \A i \in 1..Len(out'[e]) : out'[e][i][1] \notin {"execute", "set_value"}
                   \/ \E u \in Slots : TakesSlot(e, u)]_vars

\* Scenario E: the turn-off request has just issued its one execute call,
\* "pause", for the record named "n2".
C12_Witness ==
    \E e \in Entities, t \in Slots :
        /\ variant[e] = "kidcontrol"
        /\ task[e][t].pc = "write" /\ ~task[e][t].on
        /\ task[e][t].execs = 1 /\ task[e][t].sets = 0
        /\ out[e] = <<<<"state", "False">>,
                      <<"execute", "/ip/kid-control", "pause", "name", "n2">>>>

\* This step is a step of a request on some entity.
RequestStep ==
    \E e \in Entities :
        \/ \E t \in Slots : task'[e][t].pc # task[e][t].pc
        \/ optimistic'[e] # optimistic[e]
        \/ wip'[e] # wip[e]
        \/ out'[e] # <<>>

(***************************************************************************)
(* C13 -- The snapshot is read-only for the switch code: no step of a      *)
(* request of any class (accepted, dropped, rejected or failed) adds,      *)
(* removes or changes a record or field of the snapshot, so resolving the  *)
(* target of a matcher against it gives the same id before and after.      *)
(***************************************************************************)
C13_SnapshotReadOnly ==
    [][RequestStep
       => /\ access' = access /\ data' = data /\ coll' = coll
          /\ \A e \in Entities :
                Locate(variant[e], coll'[e], data'[e])
                    = Locate(variant[e], coll[e], data[e])]_vars

\* A mangle rule whose second record matches: one request was dropped while
\* the write of another, which names that record, is in flight.
C13_Witness ==
    \E e \in Entities, t, u \in Slots :
        /\ variant[e] = "mangle"
        /\ InFlight(e, t)
        /\ DroppedRecord(task[e][u], None)
        /\ MatchingRecords(e) = {2}
        /\ Locate(variant[e], coll[e], data[e]) = "*2"

(***************************************************************************)
(* C14 -- First-match resolution: when one or more records of a matcher's  *)
(* collection carry the key of the entity's record, the reference of the   *)
(* write is the ".id" of the first of them in iteration order.             *)
(***************************************************************************)
C14_FirstMatch ==
    [][\A e \in Entities, t \in Slots :
          (/\ variant[e] \in Matchers
           /\ TakesSlot(e, t) /\ task'[e][t].pc = "write"
           /\ MatchingRecords(e) # {})
          => \E i \in MatchingRecords(e) :
                /\ \A j \in MatchingRecords(e) : i <= j
                /\ CallsIn(out'[e]) =
                      <<MatcherWrite(e, task'[e][t].on, coll[e][i][".id"])>>]_vars

\* C14 as the code has it: when one or more records of the collection carry
\* the key, the reference of the write is the ".id" of the last of them in
\* iteration order.
C14_LastMatch ==
    [][\A e \in Entities, t \in Slots :
          (/\ variant[e] \in Matchers
           /\ TakesSlot(e, t) /\ task'[e][t].pc = "write"
           /\ MatchingRecords(e) # {})
          => \E i \in MatchingRecords(e) :
                /\ \A j \in MatchingRecords(e) : j <= i
                /\ CallsIn(out'[e]) =
                      <<MatcherWrite(e, task'[e][t].on, coll[e][i][".id"])>>]_vars

\* Both records of the NAT collection carry the rule's key and the write just
\* issued to turn the rule on names the second.
C14_Witness ==
    \E e \in Entities, t \in Slots :
        /\ variant[e] = "nat"
        /\ MatchingRecords(e) = {1, 2}
        /\ task[e][t].pc = "write" /\ task[e][t].on
        /\ CallsIn(out[e]) =
              <<<<"set_value", "/ip/firewall/nat", ".id", "*2", "disabled", "False">>>>

(***************************************************************************)
(* C15 -- A raised transport error is handled like a rejected write: for   *)
(* every class, when the awaited remote call raises, the optimistic state  *)
(* is rolled back to the state displayed before the request,               *)
(* _write_in_progress is cleared and no refresh is requested.              *)
(***************************************************************************)
C15_RaiseRollsBack ==
    [][\A e \in Entities, t \in Slots :
          (InFlight(e, t) /\ task'[e][t].pc = "done" /\ task'[e][t].ret = "raised")
          => /\ optimistic'[e] = task[e][t].prev
             /\ IsOn(optimistic'[e], data'[e], variant[e]) = task[e][t].prev[1]
             /\ ~wip'[e]
             /\ task'[e][t].refreshes = 0
             /\ CallsIn(out'[e]) = <<>>]_vars

(***************************************************************************)
(* C16 -- Success path: when the remote write or command of an accepted    *)
(* request neither returns False nor raises, _write_in_progress is         *)
(* cleared, then exactly one refresh is requested, and only after that     *)
(* request has returned the optimistic state is set to unset and a final   *)
(* state notification is written; no refresh is requested before the       *)
(* write has returned.                                                     *)
(***************************************************************************)
C16_SuccessPath ==
    /\ [](\A e \in Entities, t \in Slots :
             /\ InFlight(e, t) => task[e][t].refreshes = 0
             /\ task[e][t].pc = "refresh" => task[e][t].refreshes = 1
             /\ task[e][t].refreshes <= 1)
    /\ [][\A e \in Entities, t \in Slots :
             /\ (WriteReturnsBase(e, t, "ok") \/ ExecuteReturns(e, t, "ok")
                 \/ PoeReturns(e, t, "ok"))
                => (InFlight(e, t) /\ task'[e][t].pc = "refresh")
             /\ WriteReturnsPort(e, t, "ok")
                => (InFlight(e, t) /\ task'[e][t].pc \in {"poe", "refresh"})]_vars
    /\ [][\A e \in Entities, t \in Slots :
             (InFlight(e, t) /\ task'[e][t].pc = "refresh")
             => /\ ~wip'[e]
                /\ out'[e] = <<RefreshCall>>
                /\ optimistic'[e] = optimistic[e]]_vars
    /\ [][\A e \in Entities, t \in Slots :
             (task[e][t].pc = "refresh" /\ task'[e][t].pc # "refresh")
             => /\ task'[e][t].pc = "done" /\ task'[e][t].ret = None
                /\ task'[e][t].refreshes = 1
                /\ optimistic'[e] = Unset
                /\ out'[e] = <<<<"state",
                                 IF data[e][Descriptor(variant[e]).data_attribute]
                                 THEN "True" ELSE "False">>>>]_vars

\* A request has gone the whole success path: one write, one refresh request,
\* the optimistic state unset and the final notification just written.
C16_Witness ==
    \E e \in Entities, t \in Slots :
        /\ task[e][t].pc = "done" /\ task[e][t].ret = None
        /\ task[e][t].sets = 1 /\ task[e][t].refreshes = 1
        /\ ~wip[e] /\ optimistic[e] = Unset
        /\ out[e] = <<<<"state", "True">>>>

(***************************************************************************)
(* C17 -- Notifications: every accepted request writes at least one state  *)
(* notification on entry, before any remote call is issued, and at least   *)
(* one more when the attempt ends, by completion or by rollback.           *)
(***************************************************************************)
C17_Notifications ==
    [][\A e \in Entities, t \in Slots :
          /\ (TakesSlot(e, t) /\ task'[e][t].pc = "write")
             => /\ Len(out'[e]) >= 2
                /\ out'[e][1] = <<"state", IF task'[e][t].on THEN "True" ELSE "False">>
                /\ IsCall(out'[e][2])
          /\ (Running(e, t) /\ task'[e][t].pc = "done")
             => \E i \in 1..Len(out'[e]) : ~IsCall(out'[e][i])]_vars

(***************************************************************************)
(* C18 -- Instance isolation: _write_in_progress and the optimistic state  *)
(* belong to one entity; a request on an entity is never dropped because   *)
(* another entity has a write in progress, and no step of a request on one *)
(* entity changes the runtime state of another, so writes of two entities  *)
(* can be in flight at the same time.                                      *)
(***************************************************************************)
C18_InstanceIsolation ==
    /\ [][\A e \in Entities, f \in Entities :
             (e # f /\ (task'[e] # task[e] \/ out'[e] # <<>>))
             => /\ wip'[f] = wip[f]
                /\ optimistic'[f] = optimistic[f]
                /\ task'[f] = task[f]]_vars
    /\ [][\A e \in Entities, t \in Slots :
             (TakesSlot(e, t) /\ "write" \in access /\ ~wip[e])
             => /\ task'[e][t].pc = "write"
                /\ wip'[e] /\ optimistic'[e] = <<task'[e][t].on>>]_vars

\* The writes of both entities are in flight, the second accepted while the
\* first was already in progress.
C18_Witness ==
    \E t, u \in Slots :
        /\ wip["e1"] /\ InFlight("e1", t)
        /\ wip["e2"] /\ InFlight("e2", u)
        /\ out["e1"] = <<>>
        /\ Len(out["e2"]) = 2 /\ out["e2"][2][1] = "execute"

(***************************************************************************)
(* C19 -- No permanent lock-out: when the remote write or command of an    *)
(* accepted request returns or raises, whatever the outcome,               *)
(* _write_in_progress is false when control leaves the write step; so, if  *)
(* every remote call eventually returns or raises, _write_in_progress is   *)
(* eventually false, and a request made then is accepted.                  *)
(***************************************************************************)
C19_NoLockOut ==
    /\ [][\A e \in Entities, t \in Slots :
             (InFlight(e, t) /\ ~InFlight(e, t)')
             => ~wip'[e]]_vars
    /\ [](\A e \in Entities : wip[e] => \E t \in Slots : InFlight(e, t))
    /\ \A e \in {"e1", "e2"} :
          (e \in Entities /\ wip[e]) ~> (e \in Entities /\ ~wip[e])
    /\ [][\A e \in Entities, t \in Slots :
             (/\ TakesSlot(e, t) /\ ~wip[e] /\ "write" \in access
              /\ ~(variant[e] = "port" /\ data[e]["about"] = "managed by CAPsMAN"))
             => (task'[e][t].pc = "write" /\ wip'[e])]_vars

\* A request is accepted after the write of an earlier one raised: the flag
\* was cleared and is set again.
C19_Witness ==
    \E e \in Entities, t, u \in Slots :
        /\ task[e][u].pc = "done" /\ task[e][u].ret = "raised"
        /\ task[e][t].pc = "write" /\ wip[e]
        /\ Len(out[e]) = 2

(***************************************************************************)
(* C20 -- Optimistic value held during a write: in every reachable state,  *)
(* also after a request arrived while an earlier one was suspended in its  *)
(* refresh request, _write_in_progress implies that the optimistic state   *)
(* is set and is the value requested by the request whose write is in      *)
(* flight.                                                                 *)
(***************************************************************************)
C20_OptimisticHeldDuringWrite ==
    \A e \in Entities :
        wip[e] => /\ optimistic[e] # Unset
                  /\ \E t \in Slots : InFlight(e, t) /\ optimistic[e] = <<task[e][t].on>>

(***************************************************************************)
(* C21 -- No flip-back after success: after a request whose write          *)
(* succeeded, with no other change on the device, the displayed state does *)
(* not show the pre-request value again: when the optimistic state is      *)
(* cleared, the snapshot in use already reflects the write, that is, it is *)
(* not still the snapshot of before the write showing another state than   *)
(* the one written.                                                        *)
(***************************************************************************)
C21_NoFlipBack ==
    [][\A e \in Entities, t \in Slots :
          (task[e][t].pc = "refresh" /\ task'[e][t].pc = "done")
          => ~task[e][t].stale]_vars

====
